---- MODULE Spec2Model ----
(***************************************************************************)
(* Model of the music dashboard front end: the optimistic rating update    *)
(* (StarRating, SearchBar, SongsTable, Dashboard, useSongs, useAnalytics,  *)
(* useSearch, useRating) and the search-suggestion surface of SearchBar.   *)
(*                                                                         *)
(* Ratings are counted in quarter stars (3.5 stars is 14): the rating       *)
(* control steps by 2, and a value off its half-star grid is expressible.   *)
(* An average is an exact fraction <<n, d>> of quarter stars in lowest      *)
(* terms with d > 0; the floating-point rounding of the JavaScript          *)
(* arithmetic is not modelled.  An absent user_rating is 0, as every reader *)
(* in the code takes it (song.user_rating || 0).  Requests in flight are    *)
(* bags: two requests alike in every respect are two requests.              *)
(***************************************************************************)
EXTENDS Integers, Sequences, FiniteSets, Bags, TLC

\* ------------------------------------------------------------------ bounds
MaxOps == 2          \* rating changes in the search result (Spec)
MaxSearches == 2     \* authoritative searches submitted (Spec)
MaxInputs == 1       \* changes of the search box's text (Spec, SpecRaw)
MaxRowOps == 2       \* rating changes in the table rows (SpecTable)
MaxRefresh == 2      \* clicks on "Refresh data" / "Reload" (SpecRefresh)
MaxTyped == 2        \* changes of the search box's text (SpecSuggest)
MaxPicked == 1       \* authoritative searches (SpecSuggest, SpecRaw)
MaxRawOps == 2       \* calls of handleRatingChange (SpecRaw)
MaxCalcCount == 3    \* largest oldCount fed to the recalculation
MaxCalcDen == 3      \* largest denominator of an oldAverage fed to it
MaxLateOps == 1      \* rating changes after the refresh (SpecReconcile)
MaxEarlyRefresh == 1 \* clicks on "Refresh data" before them (SpecReconcile)
MaxExportPages == 3  \* largest page count the server reports (SpecExport)

\* ------------------------------------------------------- program constants
MinRating == 0       \* useRating: ratingValue < 0 is rejected
MaxRating == 5       \* useRating: ratingValue > 5 is rejected

PerStar == 2 * 2     \* quarter stars in a star
MaxStars == MaxRating * PerStar

Songs == {"s1", "s2"}

Null == [isNull |-> TRUE]

\* ---------------------------------------------------------------- numbers
RECURSIVE GCD(_, _)
GCD(a, b) == IF b = 0 THEN a ELSE GCD(b, a % b)

Abs(x) == IF x < 0 THEN 0 - x ELSE x

\* the fraction n/d (d > 0) in lowest terms
Frac(n, d) ==
  LET g == GCD(Abs(n), d)
  IN  <<n \div g, d \div g>>

FracOfInt(v) == <<v, 1>>

\* a/b < c/d for positive denominators
FracLess(x, y) == x[1] * y[2] < y[1] * x[2]

\* --------------------------------------------------------- StarRating.tsx
\* the recalculation that forgets to take the user's previous rating out
calculateNewAverage_KeepsOld(oldAverage, oldCount, oldUserRating, newUserRating) ==
  IF oldCount = 0
    THEN FracOfInt(newUserRating)
    ELSE IF oldUserRating = 0
      THEN Frac(oldAverage[1] * oldCount + newUserRating * oldAverage[2],
                oldAverage[2] * (oldCount + 1))
      ELSE Frac(oldAverage[1] * oldCount + newUserRating * oldAverage[2],
                oldAverage[2] * oldCount)

\* the recalculation that takes the previous rating out and puts none in
calculateNewAverage_ForgetsNew(oldAverage, oldCount, oldUserRating, newUserRating) ==
  IF oldCount = 0
    THEN FracOfInt(newUserRating)
    ELSE IF oldUserRating = 0
      THEN Frac(oldAverage[1] * oldCount + newUserRating * oldAverage[2],
                oldAverage[2] * (oldCount + 1))
      ELSE Frac(oldAverage[1] * oldCount - oldUserRating * oldAverage[2],
                oldAverage[2] * oldCount)

\* calculateNewAverage(oldAverage, oldCount, oldUserRating, newUserRating)
calculateNewAverage(oldAverage, oldCount, oldUserRating, newUserRating) ==
  IF oldCount = 0
    THEN FracOfInt(newUserRating)
    ELSE IF oldUserRating = 0
      THEN Frac(oldAverage[1] * oldCount + newUserRating * oldAverage[2],
                oldAverage[2] * (oldCount + 1))
      ELSE Frac(oldAverage[1] * oldCount - oldUserRating * oldAverage[2]
                  + newUserRating * oldAverage[2],
                oldAverage[2] * oldCount)

\* the count that grows with every rating, and the one that never grows
newCountOf_AlwaysAdds(currentRating, ratingCount) == ratingCount + 1

newCountOf_NeverAdds(currentRating, ratingCount) == ratingCount

\* const wasFirstRating = currentRating === 0;
\* const newCount = wasFirstRating ? ratingCount + 1 : ratingCount;
newCountOf(currentRating, ratingCount) ==
  IF currentRating = 0 THEN ratingCount + 1 ELSE ratingCount

\* ------------------------------------------------------------------ state
VARIABLES
  srv,                  \* the remote collaborator's data, per song
  tabValue,             \* Dashboard: the tab shown
  rawSongs, songs,      \* useSongs: the fetched page and its sorted copy
  loading, error,       \* useSongs
  sortConfig,           \* useSongs
  songFetches,          \* getSongs calls of fetchSongs in flight
  analyticsData,        \* useAnalytics: Null or [allSongs, totalRatedSongs]
  analyticsLoading, analyticsError,
  analyticsFetches,     \* fetchAnalyticsData runs in flight
  searchResult, searching, searchError,   \* useSearch (inside SearchBar)
  searchCalls,          \* searchSong runs in flight
  searchTerm, searchSuggestions, showSuggestions, isLoadingSuggestions,
  focused,              \* document.activeElement === inputRef.current
  lookups,              \* searchForSuggestions runs in flight
  widgets,              \* the StarRating instances: isUpdating and useRating
  rateCalls,            \* handleRatingChange runs waiting on rating()
  counters,             \* what is left of the user's budget, and calls made
  calc,                 \* the recalculation applied to free inputs (SpecCalc)
  user,                 \* useAuth().user: Null or the signed-in user
  exportButton,         \* ExportButton: exporting, success, error
  exportRuns,           \* handleExport runs waiting in getAllSongs
  downloaded            \* the songs of the CSV file last downloaded, or Null

songsVars == <<rawSongs, songs, loading, error, sortConfig, songFetches>>
analyticsVars ==
  <<analyticsData, analyticsLoading, analyticsError, analyticsFetches>>
searchVars == <<searchResult, searching, searchError, searchCalls>>
suggestVars ==
  <<searchTerm, searchSuggestions, showSuggestions, isLoadingSuggestions,
    focused, lookups>>
ratingVars == <<widgets, rateCalls>>
exportVars == <<exportButton, exportRuns, downloaded>>
vars ==
  <<srv, tabValue, songsVars, analyticsVars, searchVars, suggestVars,
    ratingVars, counters, calc, user, exportVars>>

\* one more request in flight, one fewer
Put(bag, e) == bag (+) SetToBag({e})
Take(bag, e) == bag (-) SetToBag({e})

\* ------------------------------------------------- the remote collaborator
\* titles are sequences of characters, so that trim() is a computation
Title(s) == IF s = "s1" THEN <<"a">> ELSE <<"a", "b">>

ServerAverage(r) == IF r.count = 0 THEN <<0, 1>> ELSE Frac(r.sum, r.count)

\* the Song the API returns for s (types/index.ts Song): the fields the
\* rating and search logic reads
SrvSong(s) ==
  [id |-> s, title |-> Title(s), user_rating |-> srv[s].user,
   average_rating |-> ServerAverage(srv[s]), rating_count |-> srv[s].count]

\* GET /songs: the catalog in index order
SongList == <<SrvSong("s1"), SrvSong("s2")>>

\* GET /songs/user/ratings: the acting user's ratings
UserRatingsList == {s \in Songs : srv[s].user > 0}

\* POST /songs/{id}/rate: the acting user's rating replaces the previous one
ServerApplyRating(r, v) ==
  IF r.user = 0
    THEN [user |-> v, sum |-> r.sum + v, count |-> r.count + 1]
    ELSE [user |-> v, sum |-> r.sum - r.user + v, count |-> r.count]

\* POST /songs/{id}/rate takes 0.5 to 5.0 stars in steps of 0.5 and answers
\* any other value with an error
ServerTakes(v) == v \in {k * (PerStar \div 2) : k \in 1..(2 * MaxRating)}

\* GET /songs/search/{title}: one exact-title match or none
SearchMatch(title) ==
  IF \E s \in Songs : Title(s) = title
    THEN SrvSong(CHOOSE s \in Songs : Title(s) = title)
    ELSE Null

\* ------------------------------------------------------------- utils/index
\* the comparator of sortSongs on a numeric field, as a sign
Compare(a, b, config) ==
  LET less == FracLess(a[config.field], b[config.field])
      more == FracLess(b[config.field], a[config.field])
      asc  == IF less THEN 0 - 1 ELSE IF more THEN 1 ELSE 0
  IN  IF config.direction = "asc" THEN asc ELSE 0 - asc

\* x put behind every element that does not compare greater (stable)
RECURSIVE InsertSorted(_, _, _)
InsertSorted(x, s, config) ==
  IF s = <<>> THEN <<x>>
  ELSE IF Compare(Head(s), x, config) <= 0
    THEN <<Head(s)>> \o InsertSorted(x, Tail(s), config)
    ELSE <<x>> \o s

\* sortSongs(songs, field, direction): [...songs].sort(comparator)
RECURSIVE sortSongs(_, _)
sortSongs(s, config) ==
  IF s = <<>> THEN <<>>
  ELSE InsertSorted(s[Len(s)], sortSongs(SubSeq(s, 1, Len(s) - 1), config),
                    config)

\* ----------------------------------------------------------------- useSongs
\* the effect on [rawSongs, sortConfig]: what songs is set to
SortEffect(raw, config) ==
  IF Len(raw) > 0
    THEN IF config # Null THEN sortSongs(raw, config) ELSE raw
    ELSE <<>>

\* the update that writes the rating into every entry of the list
updateSongInArray_AllRows(songsArray, songId, newUserRating, newAverage, newCount) ==
  [i \in 1..Len(songsArray) |->
     [songsArray[i] EXCEPT !.user_rating = newUserRating,
                           !.average_rating = newAverage,
                           !.rating_count = newCount]]

\* updateSongInArray of updateSongRating
updateSongInArray(songsArray, songId, newUserRating, newAverage, newCount) ==
  [i \in 1..Len(songsArray) |->
     IF songsArray[i].id = songId
       THEN [songsArray[i] EXCEPT !.user_rating = newUserRating,
                                  !.average_rating = newAverage,
                                  !.rating_count = newCount]
       ELSE songsArray[i]]

\* handleSort: setSortConfig(prevConfig => ...)
NextSortConfig(prevConfig, field) ==
  IF prevConfig # Null /\ prevConfig.field = field
    THEN [field |-> field,
          direction |-> IF prevConfig.direction = "asc" THEN "desc" ELSE "asc"]
    ELSE [field |-> field, direction |-> "asc"]

\* ---------------------------------------------------------------- useSearch
\* updateSearchResult: setSearchResult(prevResult => ...)
updateSearchResult(prevResult, songId, newUserRating, newAverage, newCount) ==
  IF prevResult # Null /\ prevResult.id = songId
    THEN [prevResult EXCEPT !.user_rating = newUserRating,
                            !.average_rating = newAverage,
                            !.rating_count = newCount]
    ELSE prevResult

\* ------------------------------------------------------------- useAnalytics
Max(a, b) == IF a > b THEN a ELSE b

\* updateRatedSongsCount: setAnalyticsData(prevData => ...)
updateRatedSongsCount(prevData, songId, newUserRating, oldUserRating) ==
  IF prevData = Null THEN prevData
  ELSE
    LET wasRatedBefore == oldUserRating > 0
        isRatedNow == newUserRating > 0
        countChange == IF ~wasRatedBefore /\ isRatedNow THEN 1
                       ELSE IF wasRatedBefore /\ ~isRatedNow THEN 0 - 1
                       ELSE 0
    IN  [totalRatedSongs |-> Max(0, prevData.totalRatedSongs + countChange),
         allSongs |->
           [i \in 1..Len(prevData.allSongs) |->
              IF prevData.allSongs[i].id = songId
                THEN [prevData.allSongs[i] EXCEPT !.user_rating = newUserRating]
                ELSE prevData.allSongs[i]]]

\* ids of the songs of a list
Ids(list) == {list[i].id : i \in 1..Len(list)}

\* the entry of a list with the given id (the list holds it)
Find(list, songId) ==
  list[CHOOSE i \in 1..Len(list) : list[i].id = songId]

\* analyticsData.allSongs.find(song => song.id === songId)?.user_rating || 0
AnalyticsOldUserRating(data, songId) ==
  IF songId \in Ids(data.allSongs)
    THEN Find(data.allSongs, songId).user_rating
    ELSE 0

\* ------------------------------------------------------------ what is shown
Locs == {"search"} \cup Songs     \* the search result's widget, one per row

\* Dashboard: if (loading && songs.length === 0) return <LoadingSpinner/>
Spinner == loading /\ songs = <<>>

\* TabPanel renders its children only when value === index
TableShown == ~Spinner /\ tabValue = 0 /\ error = "none"
SearchBarMounted == ~Spinner /\ tabValue = 1

\* the StarRating of a table row (the rows give way to skeletons while
\* loading), and the one of the search result
WidgetMounted(l) ==
  IF l = "search"
    THEN SearchBarMounted /\ searchResult # Null
    ELSE TableShown /\ ~loading /\ l \in Ids(songs)

UnmountedLocs == {l \in Locs : ~WidgetMounted(l)}

\* the song a widget gets its props from
WidgetSong(l) == IF l = "search" THEN searchResult ELSE Find(songs, l)

Fresh == [isUpdating |-> FALSE, ratingLoading |-> FALSE, ratingError |-> "none"]

\* an unmounted StarRating loses its state; a new one starts afresh
ResetWidgets(w, locs) == [l \in Locs |-> IF l \in locs THEN Fresh ELSE w[l]]

\* the continuation of a rating() whose widget is gone changes nothing: such
\* a call is kept only until the server has seen the request
Detach(rc, locs) ==
  LET d == {IF c.loc \in locs THEN [c EXCEPT !.live = FALSE] ELSE c : c \in rc}
  IN  {c \in d : c.live \/ c.phase = "req"}

\* ---------------------------------------------------------------- SearchBar
\* String.prototype.trim on a sequence of characters
RECURSIVE TrimLeft(_)
TrimLeft(t) ==
  IF t # <<>> /\ Head(t) = " " THEN TrimLeft(Tail(t)) ELSE t

RECURSIVE TrimRight(_)
TrimRight(t) ==
  IF t # <<>> /\ t[Len(t)] = " " THEN TrimRight(SubSeq(t, 1, Len(t) - 1)) ELSE t

Trim(t) == TrimRight(TrimLeft(t))

\* the effect on [searchTerm, searchResult]: it issues no lookup for blank
\* input or when the result shown already has the trimmed input as title
EffectQuiet(term, result) ==
  \/ Trim(term) = <<>>
  \/ result # Null /\ result.title = Trim(term)

\* The state the effect leaves, run (ran) after a handler that set the term,
\* the result, the suggestions (sugg) and the visibility (show), with the
\* input holding the focus or not (foc).
SuggestEffect(ran, term, result, sugg, show, foc) ==
  /\ searchSuggestions' = IF ran /\ Trim(term) = <<>> THEN <<>> ELSE sugg
  /\ showSuggestions' =
       IF ~ran THEN show
       ELSE IF EffectQuiet(term, result) THEN FALSE
       ELSE IF foc THEN TRUE ELSE show
  /\ isLoadingSuggestions' =
       IF ran /\ ~EffectQuiet(term, result) THEN TRUE ELSE isLoadingSuggestions
  /\ lookups' =
       IF ran /\ ~EffectQuiet(term, result)
         THEN Put(lookups, [term |-> term, phase |-> "req", result |-> Null])
         ELSE lookups

\* ------------------------------------------------------------- construction
\* what useAuth() gives the components once a user has signed in
SignedInUser == [id |-> "u1"]

CalcIdle ==
  [oldAverage |-> <<0, 1>>, oldCount |-> 0, oldUserRating |-> 0,
   newUserRating |-> 0, newAverage |-> <<0, 1>>, newCount |-> 0,
   done |-> FALSE]

\* the catalog: s1 rated 4.0 on average by two other users, s2 unrated
InitServer ==
  srv = [s \in Songs |->
           IF s = "s1" THEN [user |-> 0, sum |-> 2 * (4 * PerStar), count |-> 2]
                       ELSE [user |-> 0, sum |-> 0, count |-> 0]]

\* an ExportButton as mounted: its useState initial values
ExportIdle == [exporting |-> FALSE, success |-> FALSE, error |-> "none"]

ExportInitial ==
  /\ exportButton = ExportIdle
  /\ exportRuns = EmptyBag
  /\ downloaded = Null

\* a SearchBar as mounted: its useState initial values
SearchBarInitial ==
  /\ searchResult = Null /\ searching = FALSE /\ searchError = "none"
  /\ searchCalls = EmptyBag
  /\ searchTerm = <<>> /\ searchSuggestions = <<>>
  /\ showSuggestions = FALSE /\ isLoadingSuggestions = FALSE
  /\ focused = FALSE /\ lookups = EmptyBag

Budget(ops, searches, refreshes, inputs) ==
  [ops |-> ops, searches |-> searches, refreshes |-> refreshes,
   inputs |-> inputs, calls |-> 0]

\* The Dashboard as mounted: the useState initial values, and the two mount
\* effects (fetchSongs, fetchAnalyticsData) have issued their requests.
DashboardInitial ==
  /\ InitServer
  /\ tabValue = 0
  /\ rawSongs = <<>> /\ songs = <<>> /\ loading = TRUE /\ error = "none"
  /\ sortConfig = Null
  /\ songFetches = SetToBag({[phase |-> "req", items |-> <<>>]})
  /\ analyticsData = Null /\ analyticsLoading = TRUE
  /\ analyticsError = "none"
  /\ analyticsFetches =
       SetToBag({[phase |-> "songs", items |-> <<>>, total |-> 0]})
  /\ SearchBarInitial
  /\ widgets = [l \in Locs |-> Fresh]
  /\ rateCalls = {}
  /\ ExportInitial
  /\ user = SignedInUser

Init ==
  /\ DashboardInitial
  /\ counters = Budget(MaxOps, MaxSearches, 0, MaxInputs)
  /\ calc = CalcIdle

\* The Dashboard with both mount effects done and the search tab opened: the
\* SearchBar as mounted there.
SearchTabLoaded ==
  /\ InitServer
  /\ tabValue = 1
  /\ rawSongs = SongList /\ songs = SongList
  /\ loading = FALSE /\ error = "none"
  /\ sortConfig = Null
  /\ songFetches = EmptyBag
  /\ analyticsData = [allSongs |-> SongList, totalRatedSongs |-> 0]
  /\ analyticsLoading = FALSE
  /\ analyticsError = "none"
  /\ analyticsFetches = EmptyBag
  /\ SearchBarInitial
  /\ widgets = [l \in Locs |-> Fresh]
  /\ rateCalls = {}
  /\ ExportInitial

\* App renders the Dashboard for a signed-in user
SearchTabInitial ==
  /\ SearchTabLoaded
  /\ user = SignedInUser

\* ---------------------------------------------------------------- Dashboard
\* the ExportButton is rendered in the panel of the songs tab
ExportButtonMounted == ~Spinner /\ tabValue = 0

\* an unmounted ExportButton loses its state; its handleExport runs go on,
\* with state setters that change nothing
ExportRerender ==
  IF ExportButtonMounted'
    THEN UNCHANGED exportVars
    ELSE /\ exportButton' = ExportIdle
         /\ exportRuns' =
              LET rs == BagToSet(exportRuns)
                  off(r) == [r EXCEPT !.live = FALSE]
              IN  [d \in {off(r) : r \in rs} |->
                     CopiesIn(d, exportRuns)
                       + CopiesIn([d EXCEPT !.live = TRUE], exportRuns)]
         /\ UNCHANGED downloaded

\* what unmounting the widgets that the new state no longer shows leaves
Rerender(w, rc) ==
  /\ widgets' = ResetWidgets(w, UnmountedLocs')
  /\ rateCalls' = Detach(rc, UnmountedLocs')

\* fetchSongs up to its await: setLoading(true); setError(null); getSongs
StartFetchSongs ==
  /\ loading' = TRUE
  /\ error' = "none"
  /\ songFetches' = Put(songFetches, [phase |-> "req", items |-> <<>>])

\* fetchAnalyticsData up to its first await
StartFetchAnalytics ==
  /\ analyticsLoading' = TRUE
  /\ analyticsError' = "none"
  /\ analyticsFetches' =
       Put(analyticsFetches, [phase |-> "songs", items |-> <<>>, total |-> 0])

\* handleTabChange: the panel left is unmounted, and a SearchBar left loses
\* its state and the continuations of its requests
handleTabChange(v) ==
  /\ ~Spinner
  /\ v # tabValue
  /\ tabValue' = v
  /\ searchResult' = Null /\ searching' = FALSE /\ searchError' = "none"
  /\ searchCalls' = EmptyBag
  /\ searchTerm' = <<>> /\ searchSuggestions' = <<>>
  /\ showSuggestions' = FALSE /\ isLoadingSuggestions' = FALSE
  /\ focused' = FALSE /\ lookups' = EmptyBag
  /\ UNCHANGED <<srv, songsVars, analyticsVars, counters, calc, user>>
  /\ Rerender(widgets, rateCalls)
  /\ ExportRerender

\* handleRefresh, from the table's refresh button (disabled while loading)
\* or from "Reload Songs" of the error message
handleRefresh ==
  /\ counters.refreshes > 0
  /\ ~Spinner /\ tabValue = 0
  /\ error # "none" \/ ~loading
  /\ counters' = [counters EXCEPT !.refreshes = @ - 1]
  /\ StartFetchSongs
  /\ StartFetchAnalytics
  /\ UNCHANGED <<rawSongs, songs, sortConfig, analyticsData>>
  /\ UNCHANGED <<srv, tabValue, searchVars, suggestVars, calc, user>>
  /\ Rerender(widgets, rateCalls)
  /\ ExportRerender

SortFields == {"average_rating"}

\* handleSort from a column header, and the sort effect it triggers
handleSort(field) ==
  /\ TableShown
  /\ sortConfig' = NextSortConfig(sortConfig, field)
  /\ songs' = SortEffect(rawSongs, sortConfig')
  /\ UNCHANGED <<rawSongs, loading, error, songFetches>>
  /\ UNCHANGED <<srv, tabValue, analyticsVars, searchVars, suggestVars,
                 ratingVars, counters, calc, user, exportVars>>

\* the server answers a getSongs of fetchSongs
ServeSongs(f) ==
  /\ f.phase = "req"
  /\ songFetches' =
       Put(Take(songFetches, f), [phase |-> "resp", items |-> SongList])
  /\ UNCHANGED <<rawSongs, songs, loading, error, sortConfig>>
  /\ UNCHANGED <<srv, tabValue, analyticsVars, searchVars, suggestVars,
                 ratingVars, counters, calc, user, exportVars>>

\* fetchSongs after its await: setRawSongs(response.items), the sort effect,
\* finally setLoading(false)
fetchSongsDone(f) ==
  /\ f.phase = "resp"
  /\ songFetches' = Take(songFetches, f)
  /\ rawSongs' = f.items
  /\ songs' = SortEffect(f.items, sortConfig)
  /\ loading' = FALSE
  /\ UNCHANGED <<error, sortConfig>>
  /\ UNCHANGED <<srv, tabValue, analyticsVars, searchVars, suggestVars,
                 counters, calc, user, exportVars>>
  /\ Rerender(widgets, rateCalls)

\* fetchSongs when getSongs throws (network error, timeout)
fetchSongsFail(f) ==
  /\ songFetches' = Take(songFetches, f)
  /\ error' = "failed"
  /\ rawSongs' = <<>>
  /\ songs' = <<>>
  /\ loading' = FALSE
  /\ UNCHANGED sortConfig
  /\ UNCHANGED <<srv, tabValue, analyticsVars, searchVars, suggestVars,
                 counters, calc, user, exportVars>>
  /\ Rerender(widgets, rateCalls)

\* ------------------------------------------------------- fetchAnalyticsData
\* the server answers getSongs(1, 100)
ServeAnalyticsSongs(f) ==
  /\ f.phase = "songs"
  /\ analyticsFetches' =
       Put(Take(analyticsFetches, f),
           [f EXCEPT !.phase = "ratings", !.items = SongList])
  /\ UNCHANGED <<analyticsData, analyticsLoading, analyticsError>>
  /\ UNCHANGED <<srv, tabValue, songsVars, searchVars, suggestVars,
                 ratingVars, counters, calc, user, exportVars>>

\* the server answers getUserRatings
ServeUserRatings(f) ==
  /\ f.phase = "ratings"
  /\ analyticsFetches' =
       Put(Take(analyticsFetches, f),
           [f EXCEPT !.phase = "done", !.total = Cardinality(UserRatingsList)])
  /\ UNCHANGED <<analyticsData, analyticsLoading, analyticsError>>
  /\ UNCHANGED <<srv, tabValue, songsVars, searchVars, suggestVars,
                 ratingVars, counters, calc, user, exportVars>>

\* setAnalyticsData({allSongs, totalRatedSongs, userRatings})
fetchAnalyticsDone(f) ==
  /\ f.phase = "done"
  /\ analyticsFetches' = Take(analyticsFetches, f)
  /\ analyticsData' = [allSongs |-> f.items, totalRatedSongs |-> f.total]
  /\ analyticsLoading' = FALSE
  /\ UNCHANGED analyticsError
  /\ UNCHANGED <<srv, tabValue, songsVars, searchVars, suggestVars,
                 ratingVars, counters, calc, user, exportVars>>

\* getUserRatings throws: the rated songs are counted from the fetched items
userRatingsFail(f) ==
  /\ f.phase = "ratings"
  /\ analyticsFetches' = Take(analyticsFetches, f)
  /\ analyticsData' =
       [allSongs |-> f.items,
        totalRatedSongs |->
          Cardinality({i \in 1..Len(f.items) : f.items[i].user_rating > 0})]
  /\ analyticsLoading' = FALSE
  /\ UNCHANGED analyticsError
  /\ UNCHANGED <<srv, tabValue, songsVars, searchVars, suggestVars,
                 ratingVars, counters, calc, user, exportVars>>

\* getSongs throws: setError, setAnalyticsData(null)
fetchAnalyticsFail(f) ==
  /\ f.phase = "songs"
  /\ analyticsFetches' = Take(analyticsFetches, f)
  /\ analyticsData' = Null
  /\ analyticsError' = "failed"
  /\ analyticsLoading' = FALSE
  /\ UNCHANGED <<srv, tabValue, songsVars, searchVars, suggestVars,
                 ratingVars, counters, calc, user, exportVars>>

\* ---------------------------------------------------------------- useSearch
\* searchSong up to its await
StartSearch(title) ==
  IF Trim(title) = <<>>
    THEN /\ searchError' = "empty"
         /\ UNCHANGED <<searchResult, searching, searchCalls>>
    ELSE /\ searching' = TRUE
         /\ searchError' = "none"
         /\ searchResult' = Null
         /\ searchCalls' =
              Put(searchCalls,
                  [title |-> title, phase |-> "req", result |-> Null])

\* the server answers a search; ApiService.searchSong sends title.trim()
ServeSearch(c) ==
  /\ c.phase = "req"
  /\ searchCalls' =
       Put(Take(searchCalls, c),
           [c EXCEPT !.phase = "resp", !.result = SearchMatch(Trim(c.title))])
  /\ UNCHANGED <<searchResult, searching, searchError>>
  /\ UNCHANGED <<srv, tabValue, songsVars, analyticsVars, suggestVars,
                 ratingVars, counters, calc, user, exportVars>>

\* searchSong after its await, and the suggestion effect when the result set
\* is a new one
searchSongDone(c) ==
  /\ c.phase = "resp"
  /\ searchCalls' = Take(searchCalls, c)
  /\ searching' = FALSE
  /\ IF c.result # Null
       THEN /\ searchResult' = c.result
            /\ UNCHANGED searchError
       ELSE /\ searchError' = "notfound"
            /\ UNCHANGED searchResult
  /\ SuggestEffect(c.result # Null, searchTerm, searchResult',
                   searchSuggestions, showSuggestions, focused)
  /\ UNCHANGED <<searchTerm, focused>>
  /\ UNCHANGED <<srv, tabValue, songsVars, analyticsVars, counters, calc, user, exportVars>>
  /\ Rerender(widgets, rateCalls)

\* searchSong when ApiService.searchSong throws
searchSongFail(c) ==
  /\ searchCalls' = Take(searchCalls, c)
  /\ searching' = FALSE
  /\ searchError' = "failed"
  /\ UNCHANGED searchResult
  /\ UNCHANGED <<srv, tabValue, songsVars, analyticsVars, suggestVars,
                 ratingVars, counters, calc, user, exportVars>>

\* searchSong called with any title by the component that holds the hook,
\* and the suggestion effect when the result set is a new one
searchSong(title) ==
  /\ SearchBarMounted
  /\ counters.searches > 0
  /\ counters' = [counters EXCEPT !.searches = @ - 1]
  /\ StartSearch(title)
  /\ SuggestEffect(searchResult' # searchResult, searchTerm, searchResult',
                   searchSuggestions, showSuggestions, focused)
  /\ UNCHANGED <<searchTerm, focused>>
  /\ UNCHANGED <<srv, tabValue, songsVars, analyticsVars, calc, user, exportVars>>
  /\ Rerender(widgets, rateCalls)

\* clearSearch: setSearchResult(null); setSearchError(null)
clearSearch ==
  /\ SearchBarMounted
  /\ searchResult' = Null
  /\ searchError' = "none"
  /\ UNCHANGED <<searching, searchCalls>>
  /\ SuggestEffect(searchResult' # searchResult, searchTerm, searchResult',
                   searchSuggestions, showSuggestions, focused)
  /\ UNCHANGED <<searchTerm, focused>>
  /\ UNCHANGED <<srv, tabValue, songsVars, analyticsVars, counters, calc, user, exportVars>>
  /\ Rerender(widgets, rateCalls)

\* ---------------------------------------------------------------- SearchBar
\* handleSearch, from the "Get Song" button (byKey = FALSE: the click takes
\* the focus from the input) or from Enter with no suggestion to take
handleSearch(byKey) ==
  /\ SearchBarMounted /\ ~searching
  /\ counters.searches > 0
  /\ Trim(searchTerm) # <<>>
  /\ byKey => focused /\ ~(Len(searchSuggestions) > 0 /\ showSuggestions)
  /\ counters' = [counters EXCEPT !.searches = @ - 1]
  /\ focused' = (byKey /\ focused)
  /\ StartSearch(Trim(searchTerm))
  /\ UNCHANGED searchTerm
  /\ SuggestEffect(searchResult # Null, searchTerm, Null,
                   searchSuggestions, FALSE, focused')
  /\ UNCHANGED <<srv, tabValue, songsVars, analyticsVars, calc, user, exportVars>>
  /\ Rerender(widgets, rateCalls)

\* handleSuggestionClick, from a click on a listed suggestion or from Enter
\* while the list is shown (handleKeyPress takes the first entry)
handleSuggestionClick(suggestion, byKey) ==
  /\ SearchBarMounted
  /\ counters.searches > 0
  /\ \E i \in 1..Len(searchSuggestions) : searchSuggestions[i] = suggestion
  /\ showSuggestions
  /\ IF byKey
       THEN focused /\ ~searching /\ suggestion = searchSuggestions[1]
       ELSE ~isLoadingSuggestions
  /\ counters' = [counters EXCEPT !.searches = @ - 1]
  /\ searchTerm' = suggestion.title
  /\ focused' = (byKey /\ focused)
  /\ StartSearch(suggestion.title)
  /\ SuggestEffect(searchTerm' # searchTerm \/ searchResult' # searchResult,
                   searchTerm', searchResult', <<>>, FALSE, focused')
  /\ UNCHANGED <<srv, tabValue, songsVars, analyticsVars, calc, user, exportVars>>
  /\ Rerender(widgets, rateCalls)

\* what is typed into the search box
Texts == {<<>>, <<" ">>, <<"a">>, <<"a", "b">>, <<"a", " ">>, <<"b">>}

\* handleInputChange, and the suggestion effect on the new text
handleInputChange(text) ==
  /\ SearchBarMounted /\ ~searching /\ focused
  /\ counters.inputs > 0
  /\ text # searchTerm
  /\ counters' = [counters EXCEPT !.inputs = @ - 1]
  /\ searchTerm' = text
  /\ SuggestEffect(TRUE, text, searchResult, searchSuggestions,
                   showSuggestions, focused)
  /\ UNCHANGED <<focused, searchVars>>
  /\ UNCHANGED <<srv, tabValue, songsVars, analyticsVars, ratingVars, calc, user, exportVars>>

\* handleInputFocus
handleInputFocus ==
  /\ SearchBarMounted /\ ~searching /\ ~focused
  /\ focused' = TRUE
  /\ showSuggestions' =
       IF Trim(searchTerm) # <<>>
          /\ (searchResult = Null \/ searchResult.title # Trim(searchTerm))
         THEN TRUE ELSE showSuggestions
  /\ UNCHANGED <<searchTerm, searchSuggestions, isLoadingSuggestions, lookups>>
  /\ UNCHANGED <<srv, tabValue, songsVars, analyticsVars, searchVars,
                 ratingVars, counters, calc, user, exportVars>>

\* the input loses the focus
Blur ==
  /\ SearchBarMounted /\ focused
  /\ focused' = FALSE
  /\ UNCHANGED <<searchTerm, searchSuggestions, showSuggestions,
                 isLoadingSuggestions, lookups>>
  /\ UNCHANGED <<srv, tabValue, songsVars, analyticsVars, searchVars,
                 ratingVars, counters, calc, user, exportVars>>

\* const shouldShowSuggestions = showSuggestions && (hasResults || loading)
shouldShowSuggestions ==
  showSuggestions /\ (Len(searchSuggestions) > 0 \/ isLoadingSuggestions)

\* the Popper's entry "No songs found for ...": rendered when
\* !hasResults && !isLoadingSuggestions && searchTerm.trim(), inside the
\* Popper, which is open when shouldShowSuggestions
NoResultsShown ==
  /\ shouldShowSuggestions
  /\ ~(Len(searchSuggestions) > 0) /\ ~isLoadingSuggestions
  /\ Trim(searchTerm) # <<>>

\* Escape in the input (handleKeyPress), or a click away from the open list
HideSuggestions(byKey) ==
  /\ SearchBarMounted
  /\ IF byKey THEN focused /\ ~searching ELSE shouldShowSuggestions
  /\ showSuggestions' = FALSE
  /\ UNCHANGED <<searchTerm, searchSuggestions, isLoadingSuggestions, focused,
                 lookups>>
  /\ UNCHANGED <<srv, tabValue, songsVars, analyticsVars, searchVars,
                 ratingVars, counters, calc, user, exportVars>>

\* handleClear, from any of the clear buttons shown
handleClear ==
  /\ SearchBarMounted
  /\ \/ searchTerm # <<>> /\ ~searching
     \/ searchResult # Null
     \/ searchError # "none"
  /\ searchTerm' = <<>>
  /\ searchResult' = Null
  /\ searchError' = "none"
  /\ focused' = FALSE
  /\ SuggestEffect(TRUE, <<>>, Null, <<>>, FALSE, FALSE)
  /\ UNCHANGED <<searching, searchCalls>>
  /\ UNCHANGED <<srv, tabValue, songsVars, analyticsVars, counters, calc, user, exportVars>>
  /\ Rerender(widgets, rateCalls)

\* the server answers the lookup of fetchSuggestions
ServeLookup(l) ==
  /\ l.phase = "req"
  /\ lookups' =
       Put(Take(lookups, l),
           [l EXCEPT !.phase = "resp", !.result = SearchMatch(Trim(l.term))])
  /\ UNCHANGED <<searchTerm, searchSuggestions, showSuggestions,
                 isLoadingSuggestions, focused>>
  /\ UNCHANGED <<srv, tabValue, songsVars, analyticsVars, searchVars,
                 ratingVars, counters, calc, user, exportVars>>

\* searchForSuggestions after its await: setSearchSuggestions(results)
lookupDone(l) ==
  /\ l.phase = "resp"
  /\ lookups' = Take(lookups, l)
  /\ searchSuggestions' = IF l.result # Null THEN <<l.result>> ELSE <<>>
  /\ isLoadingSuggestions' = FALSE
  /\ UNCHANGED <<searchTerm, showSuggestions, focused>>
  /\ UNCHANGED <<srv, tabValue, songsVars, analyticsVars, searchVars,
                 ratingVars, counters, calc, user, exportVars>>

\* the failed lookup without the finally of searchForSuggestions
lookupFail_KeepsLoading(l) ==
  /\ lookups' = Take(lookups, l)
  /\ searchSuggestions' = <<>>
  /\ UNCHANGED isLoadingSuggestions
  /\ UNCHANGED <<searchTerm, showSuggestions, focused>>
  /\ UNCHANGED <<srv, tabValue, songsVars, analyticsVars, searchVars,
                 ratingVars, counters, calc, user, exportVars>>

\* fetchSuggestions catches the error of the lookup and returns []
lookupFail(l) ==
  /\ lookups' = Take(lookups, l)
  /\ searchSuggestions' = <<>>
  /\ isLoadingSuggestions' = FALSE
  /\ UNCHANGED <<searchTerm, showSuggestions, focused>>
  /\ UNCHANGED <<srv, tabValue, songsVars, analyticsVars, searchVars,
                 ratingVars, counters, calc, user, exportVars>>

\* ---------------------------------------------------------------- useRating
\* the range check with 0 on the rejected side
RatingInRange_ZeroRejected(ratingValue) ==
  ~(ratingValue <= MinRating * PerStar \/ ratingValue > MaxRating * PerStar)

\* the range check with 5 on the rejected side
RatingInRange_FiveRejected(ratingValue) ==
  ~(ratingValue < MinRating * PerStar \/ ratingValue >= MaxRating * PerStar)

\* if (ratingValue < 0 || ratingValue > 5) { setRatingError(...); return false }
RatingInRange(ratingValue) ==
  ~(ratingValue < MinRating * PerStar \/ ratingValue > MaxRating * PerStar)

\* what ApiService.rateSong resolves to: the updated Song
RateResponse(s) == SrvSong(s)

\* result && typeof result === 'object' && 'rating' in result
\*   && result.rating !== undefined
ResponseAccepted(result) == "rating" \in DOMAIN result

\* --------------------------------------------------------------- StarRating
\* SearchBar.handleRatingSuccess without its onRatingUpdate: the result shown
\* takes the rating, the table and the analytics list are left for later
SearchBarRatingSuccess_LeavesTable(songId, newUserRating, newAverage, newCount) ==
  /\ searchResult' = updateSearchResult(searchResult, songId, newUserRating,
                                        newAverage, newCount)
  /\ SuggestEffect(searchResult' # searchResult, searchTerm, searchResult',
                   searchSuggestions, showSuggestions, focused)
  /\ UNCHANGED <<rawSongs, songs, analyticsData>>
  /\ UNCHANGED <<loading, error, sortConfig, songFetches, analyticsLoading,
                 analyticsError, analyticsFetches, searching, searchError,
                 searchCalls, searchTerm, focused>>

\* onRatingSuccess of the search result's widget: SearchBar.handleRatingSuccess
\* (updateSearchResult), then Dashboard.handleGlobalRatingUpdate
\* (updateSongRating with its sort effect, updateRatedSongsCount), then the
\* suggestion effect on the new searchResult
SearchBarRatingSuccess(songId, newUserRating, newAverage, newCount) ==
  /\ searchResult' = updateSearchResult(searchResult, songId, newUserRating,
                                        newAverage, newCount)
  /\ rawSongs' = updateSongInArray(rawSongs, songId, newUserRating,
                                   newAverage, newCount)
  /\ songs' = SortEffect(rawSongs', sortConfig)
  /\ analyticsData' =
       IF analyticsData # Null /\ user # Null
         THEN updateRatedSongsCount(analyticsData, songId, newUserRating,
                AnalyticsOldUserRating(analyticsData, songId))
         ELSE analyticsData
  /\ SuggestEffect(searchResult' # searchResult, searchTerm, searchResult',
                   searchSuggestions, showSuggestions, focused)
  /\ UNCHANGED <<loading, error, sortConfig, songFetches, analyticsLoading,
                 analyticsError, analyticsFetches, searching, searchError,
                 searchCalls, searchTerm, focused>>

\* onRatingSuccess of a table row's widget: SongsTable.handleRatingSuccess
\* calls onRefresh(), Dashboard.handleRefresh
SongsTableRatingSuccess ==
  /\ StartFetchSongs
  /\ StartFetchAnalytics
  /\ UNCHANGED <<rawSongs, songs, sortConfig, analyticsData, searchVars,
                 suggestVars>>

\* the isUpdating that never stops the handler
Updating_Never(l) == FALSE

\* isUpdating as handleRatingChange reads it: if (... || isUpdating) return
Updating(l) == widgets[l].isUpdating

\* the check of the user that lets every caller pass
SignedIn_Always == TRUE

\* if (!user) { alert('Please sign in to rate songs'); return; }
SignedIn == user # Null

\* handleRatingChange(event, newValue) of the widget at l, with a number, up
\* to the await of rating(); a rating() that rejects the value returns at
\* once, and the finally of the handler follows
handleRatingChange(l, newValue) ==
  /\ WidgetMounted(l)
  /\ ~Updating(l)
  /\ SignedIn
  /\ counters.ops > 0
  /\ LET song == WidgetSong(l)
         currentRating == song.user_rating
         averageRating == song.average_rating
         ratingCount == song.rating_count
         newCount == newCountOf(currentRating, ratingCount)
         newAverage == calculateNewAverage(averageRating, ratingCount,
                                           currentRating, newValue)
         n == counters.calls + 1
         valid == RatingInRange(newValue)
     IN  /\ counters' = [counters EXCEPT !.ops = @ - 1, !.calls = n]
         /\ IF l = "search"
              THEN SearchBarRatingSuccess(song.id, newValue, newAverage,
                                          newCount)
              ELSE SongsTableRatingSuccess
         /\ UNCHANGED <<srv, tabValue, calc, user>>
         /\ ExportRerender
         /\ Rerender(
              [widgets EXCEPT ![l] =
                 IF valid
                   THEN [isUpdating |-> TRUE, ratingLoading |-> TRUE,
                         ratingError |-> "none"]
                   ELSE [@ EXCEPT !.isUpdating = FALSE,
                                  !.ratingError = "range"]],
              IF valid
                THEN rateCalls \cup
                       {[n |-> n, loc |-> l, live |-> TRUE, song |-> song.id,
                         value |-> newValue, outAvg |-> newAverage,
                         outCnt |-> newCount, phase |-> "req"]}
                ELSE rateCalls)

\* handleRatingChange returns at once: newValue === null (the control gives
\* null for a click on the value it shows) or isUpdating
handleRatingChangeIgnored(l) ==
  /\ WidgetMounted(l)
  /\ UNCHANGED vars

\* handleRatingChange with a number and no user: the alert, and the return
handleRatingChangeSignedOut(l) ==
  /\ WidgetMounted(l)
  /\ ~Updating(l)
  /\ ~SignedIn
  /\ UNCHANGED vars

\* the Rating control (value={currentRating}, precision 0.5, readOnly without
\* a user) calls onChange with the value clicked, unless it is the value shown
clickRating(l, value) ==
  /\ WidgetMounted(l)
  /\ user # Null
  /\ value # WidgetSong(l).user_rating
  /\ handleRatingChange(l, value)

\* the server takes the rating of a rate call
ServerRate(c) ==
  /\ c.phase = "req"
  /\ ServerTakes(c.value)
  /\ srv' = [srv EXCEPT ![c.song] = ServerApplyRating(@, c.value)]
  /\ rateCalls' = Detach((rateCalls \ {c}) \cup {[c EXCEPT !.phase = "ok"]}, {})
  /\ UNCHANGED widgets
  /\ UNCHANGED <<tabValue, songsVars, analyticsVars, searchVars, suggestVars,
                 counters, calc, user, exportVars>>

\* rating() after its await, then the finally of handleRatingChange
rateDone(c) ==
  /\ c.phase = "ok" /\ c.live
  /\ rateCalls' = rateCalls \ {c}
  /\ widgets' = [widgets EXCEPT ![c.loc] =
       [isUpdating |-> FALSE, ratingLoading |-> FALSE,
        ratingError |-> IF ResponseAccepted(RateResponse(c.song))
                          THEN @.ratingError
                          ELSE "invalid_response"]]
  /\ UNCHANGED <<srv, tabValue, songsVars, analyticsVars, searchVars,
                 suggestVars, counters, calc, user, exportVars>>

\* the failure of the rate call that sets no error
rateFail_Silent(c) ==
  /\ rateCalls' = rateCalls \ {c}
  /\ widgets' = IF c.live
                  THEN [widgets EXCEPT ![c.loc] =
                          [isUpdating |-> FALSE, ratingLoading |-> FALSE,
                           ratingError |-> @.ratingError]]
                  ELSE widgets
  /\ UNCHANGED <<srv, tabValue, songsVars, analyticsVars, searchVars,
                 suggestVars, counters, calc, user, exportVars>>

\* the failure of the rate call without the finally of handleRatingChange
rateFail_KeepsUpdating(c) ==
  /\ rateCalls' = rateCalls \ {c}
  /\ widgets' = IF c.live
                  THEN [widgets EXCEPT ![c.loc] =
                          [isUpdating |-> TRUE, ratingLoading |-> FALSE,
                           ratingError |-> "failed"]]
                  ELSE widgets
  /\ UNCHANGED <<srv, tabValue, songsVars, analyticsVars, searchVars,
                 suggestVars, counters, calc, user, exportVars>>

\* rating() when ApiService.rateSong throws (network error, timeout, the
\* server's error answer), with the request taken by the server or not
rateFail(c) ==
  /\ rateCalls' = rateCalls \ {c}
  /\ widgets' = IF c.live
                  THEN [widgets EXCEPT ![c.loc] =
                          [isUpdating |-> FALSE, ratingLoading |-> FALSE,
                           ratingError |-> "failed"]]
                  ELSE widgets
  /\ UNCHANGED <<srv, tabValue, songsVars, analyticsVars, searchVars,
                 suggestVars, counters, calc, user, exportVars>>

\* ------------------------------------------------------------- ExportButton
\* handleExport up to the first await of getAllSongs: page = 1, hasMore =
\* true, and getSongs(1, 100) is called
handleExport ==
  /\ ExportButtonMounted
  /\ ~exportButton.exporting
  /\ exportButton' = [exporting |-> TRUE, success |-> FALSE, error |-> "none"]
  /\ exportRuns' =
       Put(exportRuns, [live |-> TRUE, page |-> 1, allSongs |-> <<>>,
                        phase |-> "req", data |-> Null])
  /\ UNCHANGED downloaded
  /\ UNCHANGED <<srv, tabValue, songsVars, analyticsVars, searchVars,
                 suggestVars, ratingVars, counters, calc, user>>

\* what the server may answer to getSongs(page, 100): any items, has_next
\* and pages
ExportItems == {<<>>, <<SrvSong("s1")>>, <<SrvSong("s2")>>}

PageResponses ==
  {[items |-> i, has_next |-> h, pages |-> n] :
     i \in ExportItems, h \in BOOLEAN, n \in 0..MaxExportPages}

\* the server answers the page request of a run
ServeExportPage(r, d) ==
  /\ r.phase = "req"
  /\ exportRuns' =
       Put(Take(exportRuns, r), [r EXCEPT !.phase = "resp", !.data = d])
  /\ UNCHANGED <<exportButton, downloaded>>
  /\ UNCHANGED <<srv, tabValue, songsVars, analyticsVars, searchVars,
                 suggestVars, ratingVars, counters, calc, user>>

\* the loop that goes on whatever has_next says
LoopContinues_IgnoresHasNext(hasMore, page, pages) == ~(page > pages)

\* while (hasMore) { ...; page++; if (page > data.pages) break; }, with page
\* already incremented
LoopContinues(hasMore, page, pages) == hasMore /\ ~(page > pages)

\* getAllSongs after the await of a page: the items are appended and the
\* loop asks for the next page, or ends and handleExport goes on: with no
\* song it sets the error, otherwise it downloads the CSV of the songs and
\* sets success; its finally resets exporting
getAllSongs(r) ==
  /\ r.phase = "resp"
  /\ LET allSongs == r.allSongs \o r.data.items
         hasMore == r.data.has_next
         page == r.page + 1
     IN  IF LoopContinues(hasMore, page, r.data.pages)
           THEN /\ exportRuns' =
                     Put(Take(exportRuns, r),
                         [r EXCEPT !.allSongs = allSongs, !.page = page,
                                   !.phase = "req", !.data = Null])
                /\ UNCHANGED <<exportButton, downloaded>>
           ELSE /\ exportRuns' = Take(exportRuns, r)
                /\ downloaded' =
                     IF Len(allSongs) = 0 THEN downloaded ELSE allSongs
                /\ exportButton' =
                     IF ~r.live THEN exportButton
                     ELSE IF Len(allSongs) = 0
                       THEN [exportButton EXCEPT !.exporting = FALSE,
                                                 !.error = "empty"]
                       ELSE [exportButton EXCEPT !.exporting = FALSE,
                                                 !.success = TRUE]
  /\ UNCHANGED <<srv, tabValue, songsVars, analyticsVars, searchVars,
                 suggestVars, ratingVars, counters, calc, user>>

\* getSongs throws in getAllSongs, which throws in turn: the catch of
\* handleExport sets the error, its finally resets exporting
getAllSongsFail(r) ==
  /\ r.phase = "req"
  /\ exportRuns' = Take(exportRuns, r)
  /\ exportButton' =
       IF r.live
         THEN [exportButton EXCEPT !.exporting = FALSE, !.error = "failed"]
         ELSE exportButton
  /\ UNCHANGED downloaded
  /\ UNCHANGED <<srv, tabValue, songsVars, analyticsVars, searchVars,
                 suggestVars, ratingVars, counters, calc, user>>

\* handleCloseSnackbar
handleCloseSnackbar ==
  /\ ExportButtonMounted
  /\ exportButton.success \/ exportButton.error # "none"
  /\ exportButton' = [exportButton EXCEPT !.success = FALSE, !.error = "none"]
  /\ UNCHANGED <<exportRuns, downloaded>>
  /\ UNCHANGED <<srv, tabValue, songsVars, analyticsVars, searchVars,
                 suggestVars, ratingVars, counters, calc, user>>

\* ----------------------------------------------------------- specifications
Tabs == 0..2                        \* songs, search, analytics
MuiValues == {3 * PerStar, 5 * PerStar}   \* the stars the user clicks at
CoreTexts == {<<"a">>}              \* what the user types (Spec, SpecRaw)

\* -0.25, 0, 3.25, 3.5 and 5.5 stars: what handleRatingChange is called with
\* when the caller is not the rating control
RawValues == {0 - 1, 0, 13, 14, 22}

\* The dashboard from its construction on, with a user who searches a song
\* and rates it in the search result.
Next ==
  \/ \E v \in Tabs : handleTabChange(v)
  \/ \E field \in SortFields : handleSort(field)
  \/ \E f \in BagToSet(songFetches) : ServeSongs(f) \/ fetchSongsDone(f)
  \/ \E f \in BagToSet(analyticsFetches) :
       ServeAnalyticsSongs(f) \/ ServeUserRatings(f) \/ fetchAnalyticsDone(f)
  \/ handleInputFocus
  \/ \E text \in CoreTexts : handleInputChange(text)
  \/ \E byKey \in BOOLEAN : handleSearch(byKey)
  \/ handleClear
  \/ \E c \in BagToSet(searchCalls) :
       ServeSearch(c) \/ searchSongDone(c) \/ searchSongFail(c)
  \/ \E l \in BagToSet(lookups) :
       ServeLookup(l) \/ lookupDone(l) \/ lookupFail(l)
  \/ \E v \in MuiValues : clickRating("search", v)
  \/ handleRatingChangeIgnored("search")
  \/ \E c \in rateCalls : ServerRate(c) \/ rateDone(c) \/ rateFail(c)

Spec == Init /\ [][Next]_vars

\* The songs table from the construction of the dashboard on, with a user who
\* rates in the rows.
InitTable ==
  /\ DashboardInitial
  /\ counters = Budget(MaxRowOps, 0, 0, 0)
  /\ calc = CalcIdle

NextTable ==
  \/ \E f \in BagToSet(songFetches) :
       ServeSongs(f) \/ fetchSongsDone(f) \/ fetchSongsFail(f)
  \/ \E f \in BagToSet(analyticsFetches) :
       \/ ServeAnalyticsSongs(f) \/ ServeUserRatings(f) \/ fetchAnalyticsDone(f)
       \/ userRatingsFail(f) \/ fetchAnalyticsFail(f)
  \/ \E l \in Songs, v \in MuiValues : clickRating(l, v)
  \/ \E l \in Songs : handleRatingChangeIgnored(l)
  \/ \E c \in rateCalls : ServerRate(c) \/ rateDone(c) \/ rateFail(c)

SpecTable == InitTable /\ [][NextTable]_vars

\* The dashboard from its construction on, with a user who reloads, sorts and
\* changes tabs.
InitRefresh ==
  /\ DashboardInitial
  /\ counters = Budget(0, 0, MaxRefresh, 0)
  /\ calc = CalcIdle

NextRefresh ==
  \/ \E v \in Tabs : handleTabChange(v)
  \/ handleRefresh
  \/ \E field \in SortFields : handleSort(field)
  \/ \E f \in BagToSet(songFetches) :
       ServeSongs(f) \/ fetchSongsDone(f) \/ fetchSongsFail(f)
  \/ \E f \in BagToSet(analyticsFetches) :
       \/ ServeAnalyticsSongs(f) \/ ServeUserRatings(f) \/ fetchAnalyticsDone(f)
       \/ userRatingsFail(f) \/ fetchAnalyticsFail(f)

SpecRefresh == InitRefresh /\ [][NextRefresh]_vars

\* The SearchBar from its mounting on the search tab of the loaded dashboard,
\* with a user who types, picks suggestions and searches.
InitSuggest ==
  /\ SearchTabInitial
  /\ counters = Budget(0, MaxPicked, 0, MaxTyped)
  /\ calc = CalcIdle

NextSuggest ==
  \/ handleInputFocus
  \/ Blur
  \/ \E text \in Texts : handleInputChange(text)
  \/ \E byKey \in BOOLEAN : HideSuggestions(byKey)
  \/ handleClear
  \/ \E byKey \in BOOLEAN : handleSearch(byKey)
  \/ \E i \in 1..Len(searchSuggestions), byKey \in BOOLEAN :
       handleSuggestionClick(searchSuggestions[i], byKey)
  \/ \E c \in BagToSet(searchCalls) :
       ServeSearch(c) \/ searchSongDone(c) \/ searchSongFail(c)
  \/ \E l \in BagToSet(lookups) : ServeLookup(l) \/ lookupDone(l)

SpecSuggest == InitSuggest /\ [][NextSuggest]_vars

\* The SearchBar as above, with handleRatingChange of the result's widget
\* called with any number.
InitRaw ==
  /\ SearchTabInitial
  /\ counters = Budget(MaxRawOps, MaxPicked, 0, MaxInputs)
  /\ calc = CalcIdle

NextRaw ==
  \/ handleInputFocus
  \/ \E text \in CoreTexts : handleInputChange(text)
  \/ \E byKey \in BOOLEAN : handleSearch(byKey)
  \/ \E c \in BagToSet(searchCalls) : ServeSearch(c) \/ searchSongDone(c)
  \/ \E l \in BagToSet(lookups) : ServeLookup(l) \/ lookupDone(l)
  \/ \E v \in RawValues : handleRatingChange("search", v)
  \/ \E c \in rateCalls : ServerRate(c) \/ rateDone(c) \/ rateFail(c)

SpecRaw == InitRaw /\ [][NextRaw]_vars

\* The recalculation of StarRating applied once to inputs drawn freely: an
\* average of 0 to 5 stars, a count, the user's previous rating (0: none) and
\* the new one, both on the control's half-star grid.
CalcRatings == {k * (PerStar \div 2) : k \in 0..(2 * MaxRating)}

CalcAverages ==
  {Frac(n, d) : n \in 0..(MaxStars * MaxCalcDen), d \in 1..MaxCalcDen}
    \cap {<<n, d>> : n \in 0..(MaxStars * MaxCalcDen), d \in 1..MaxCalcDen}

CalcInputs ==
  {[oldAverage |-> a, oldCount |-> c, oldUserRating |-> o,
    newUserRating |-> u, newAverage |-> <<0, 1>>, newCount |-> 0,
    done |-> FALSE] :
     a \in {x \in CalcAverages : x[1] <= MaxStars * x[2]},
     c \in 0..MaxCalcCount, o \in CalcRatings, u \in CalcRatings \ {0}}

InitCalc ==
  /\ DashboardInitial
  /\ counters = Budget(0, 0, 0, 0)
  /\ calc \in CalcInputs

\* handleRatingChange: newCount and newAverage from the widget's props
Recompute ==
  /\ ~calc.done
  /\ calc' = [calc EXCEPT
       !.newCount = newCountOf(calc.oldUserRating, calc.oldCount),
       !.newAverage = calculateNewAverage(calc.oldAverage, calc.oldCount,
                        calc.oldUserRating, calc.newUserRating),
       !.done = TRUE]
  /\ UNCHANGED <<srv, tabValue, songsVars, analyticsVars, searchVars,
                 suggestVars, ratingVars, counters, user, exportVars>>

NextCalc == Recompute

SpecCalc == InitCalc /\ [][NextCalc]_vars

\* The widget rendered again with the props the optimistic update gave it
\* (currentRating, averageRating, ratingCount are the values pushed), and the
\* same rating submitted once more.
Resubmit ==
  /\ calc.done
  /\ calc' = [calc EXCEPT
       !.oldAverage = calc.newAverage,
       !.oldCount = calc.newCount,
       !.oldUserRating = calc.newUserRating,
       !.done = FALSE]
  /\ UNCHANGED <<srv, tabValue, songsVars, analyticsVars, searchVars,
                 suggestVars, ratingVars, counters, user, exportVars>>

\* The recalculation applied to free inputs, and then again and again to its
\* own result with the same rating.
NextRepeat == Recompute \/ Resubmit

SpecRepeat == InitCalc /\ [][NextRepeat]_vars

\* The dashboard from its construction on, with a user who reloads the table,
\* then opens the search tab for good, searches a song and rates it there:
\* every refresh is issued before every rating.
InitReconcile ==
  /\ DashboardInitial
  /\ counters = Budget(MaxLateOps, MaxPicked, MaxEarlyRefresh, MaxInputs)
  /\ calc = CalcIdle

SearchTab == {1}

NextReconcile ==
  \/ \E v \in SearchTab : handleTabChange(v)
  \/ handleRefresh
  \/ \E f \in BagToSet(songFetches) : ServeSongs(f) \/ fetchSongsDone(f)
  \/ \E f \in BagToSet(analyticsFetches) :
       ServeAnalyticsSongs(f) \/ ServeUserRatings(f) \/ fetchAnalyticsDone(f)
  \/ handleInputFocus
  \/ \E text \in CoreTexts : handleInputChange(text)
  \/ \E byKey \in BOOLEAN : handleSearch(byKey)
  \/ \E c \in BagToSet(searchCalls) : ServeSearch(c) \/ searchSongDone(c)
  \/ \E l \in BagToSet(lookups) : ServeLookup(l) \/ lookupDone(l)
  \/ \E v \in MuiValues : clickRating("search", v)
  \/ \E c \in rateCalls : ServerRate(c) \/ rateDone(c) \/ rateFail(c)

SpecReconcile == InitReconcile /\ [][NextReconcile]_vars

\* The SearchBar from its mounting on the search tab of the loaded dashboard,
\* with a user who searches one song and the other and rates each in the
\* result.
PairTexts == {<<"a">>, <<"a", "b">>}

InitPair ==
  /\ SearchTabInitial
  /\ counters = Budget(MaxOps, MaxSearches, 0, MaxTyped)
  /\ calc = CalcIdle

NextPair ==
  \/ handleInputFocus
  \/ \E text \in PairTexts : handleInputChange(text)
  \/ \E byKey \in BOOLEAN : handleSearch(byKey)
  \/ \E c \in BagToSet(searchCalls) : ServeSearch(c) \/ searchSongDone(c)
  \/ \E l \in BagToSet(lookups) : ServeLookup(l) \/ lookupDone(l)
  \/ \E v \in MuiValues : clickRating("search", v)
  \/ \E c \in rateCalls : ServerRate(c) \/ rateDone(c) \/ rateFail(c)

SpecPair == InitPair /\ [][NextPair]_vars

\* The SearchBar on the loaded search tab, rendered under an auth context
\* that gives a user or none, with handleRatingChange of the result's widget
\* called with a number whether the rating control is read-only or not.
AuthStates == {Null, SignedInUser}

InitAnonymous ==
  /\ SearchTabLoaded
  /\ user \in AuthStates
  /\ counters = Budget(MaxOps, MaxSearches, 0, MaxInputs)
  /\ calc = CalcIdle

NextAnonymous ==
  \/ handleInputFocus
  \/ \E text \in CoreTexts : handleInputChange(text)
  \/ \E byKey \in BOOLEAN : handleSearch(byKey)
  \/ handleClear
  \/ \E c \in BagToSet(searchCalls) : ServeSearch(c) \/ searchSongDone(c)
  \/ \E l \in BagToSet(lookups) : ServeLookup(l) \/ lookupDone(l)
  \/ \E v \in MuiValues : handleRatingChange("search", v)
  \/ handleRatingChangeSignedOut("search")
  \/ \E c \in rateCalls : ServerRate(c) \/ rateDone(c) \/ rateFail(c)

SpecAnonymous == InitAnonymous /\ [][NextAnonymous]_vars

\* The hook useSearch of the mounted SearchBar, with searchSong called with
\* any title, one call overlapping the other, and clearSearch.
InitHook ==
  /\ SearchTabInitial
  /\ counters = Budget(0, MaxSearches, 0, 0)
  /\ calc = CalcIdle

NextHook ==
  \/ \E title \in Texts : searchSong(title)
  \/ clearSearch
  \/ \E c \in BagToSet(searchCalls) :
       ServeSearch(c) \/ searchSongDone(c) \/ searchSongFail(c)

SpecHook == InitHook /\ [][NextHook]_vars

\* test('rating validation'): validRatings and invalidRatings, in quarter
\* stars
validRatings == {0, PerStar, 2 * PerStar, 3 * PerStar, 4 * PerStar,
                 5 * PerStar, 9 * (PerStar \div 2), 7 * (PerStar \div 2)}
invalidRatings == {0 - PerStar, 6 * PerStar, 10 * PerStar, 0 - 5 * PerStar}

\* The SearchBar on the loaded search tab, with handleRatingChange of the
\* result's widget called with the ratings of the validation test.
InitValidate ==
  /\ SearchTabInitial
  /\ counters = Budget(MaxRawOps, MaxPicked, 0, MaxInputs)
  /\ calc = CalcIdle

NextValidate ==
  \/ handleInputFocus
  \/ \E text \in CoreTexts : handleInputChange(text)
  \/ \E byKey \in BOOLEAN : handleSearch(byKey)
  \/ \E c \in BagToSet(searchCalls) : ServeSearch(c) \/ searchSongDone(c)
  \/ \E l \in BagToSet(lookups) : ServeLookup(l) \/ lookupDone(l)
  \/ \E v \in validRatings \cup invalidRatings :
       handleRatingChange("search", v)
  \/ \E c \in rateCalls : ServerRate(c) \/ rateDone(c) \/ rateFail(c)

SpecValidate == InitValidate /\ [][NextValidate]_vars

\* getSongs(1, limit) of a catalog with more songs than the limit: the page
\* without the catalog's last song
FirstPage == SubSeq(SongList, 1, Len(SongList) - 1)

\* The SearchBar on the search tab of the dashboard loaded from a catalog
\* that is larger than a page: the table and the analytics list hold the
\* first page, the search finds every song.
InitBeyond ==
  /\ InitServer
  /\ tabValue = 1
  /\ rawSongs = FirstPage /\ songs = FirstPage
  /\ loading = FALSE /\ error = "none"
  /\ sortConfig = Null
  /\ songFetches = EmptyBag
  /\ analyticsData = [allSongs |-> FirstPage, totalRatedSongs |-> 0]
  /\ analyticsLoading = FALSE
  /\ analyticsError = "none"
  /\ analyticsFetches = EmptyBag
  /\ SearchBarInitial
  /\ widgets = [l \in Locs |-> Fresh]
  /\ rateCalls = {}
  /\ ExportInitial
  /\ user = SignedInUser
  /\ counters = Budget(MaxOps, MaxPicked, 0, MaxInputs)
  /\ calc = CalcIdle

SpecBeyond == InitBeyond /\ [][NextPair]_vars

\* The songs tab of the loaded dashboard, with a user who exports the
\* catalog from a server that answers each page request as it likes, with
\* at most MaxExportPages pages reported, or not at all.
InitExport ==
  /\ InitServer
  /\ tabValue = 0
  /\ rawSongs = SongList /\ songs = SongList
  /\ loading = FALSE /\ error = "none"
  /\ sortConfig = Null
  /\ songFetches = EmptyBag
  /\ analyticsData = [allSongs |-> SongList, totalRatedSongs |-> 0]
  /\ analyticsLoading = FALSE
  /\ analyticsError = "none"
  /\ analyticsFetches = EmptyBag
  /\ SearchBarInitial
  /\ widgets = [l \in Locs |-> Fresh]
  /\ rateCalls = {}
  /\ ExportInitial
  /\ user = SignedInUser
  /\ counters = Budget(0, 0, 0, 0)
  /\ calc = CalcIdle

NextExport ==
  \/ handleExport
  \/ handleCloseSnackbar
  \/ \E r \in BagToSet(exportRuns) :
       \/ \E d \in PageResponses : ServeExportPage(r, d)
       \/ getAllSongs(r)
       \/ getAllSongsFail(r)

SpecExport == InitExport /\ [][NextExport]_vars

\* Every page request is answered or fails (the HTTP client gives up after
\* its timeout), and the continuation of an answered request is run.
ExportFairness ==
  /\ WF_vars(\E r \in BagToSet(exportRuns) :
               \/ \E d \in PageResponses : ServeExportPage(r, d)
               \/ getAllSongsFail(r))
  /\ WF_vars(\E r \in BagToSet(exportRuns) : getAllSongs(r))

SpecExportLive == SpecExport /\ ExportFairness

\* ------------------------------------------------------------------ views
\* the in-memory projections of the songs
Views == <<rawSongs, songs, searchResult, analyticsData>>

Triple(song) == <<song.user_rating, song.average_rating, song.rating_count>>

\* the views that hold songId: its table row, the search result, its entry
\* of the analytics list
RowViews(songId) ==
  IF songId \in Ids(songs) THEN {Find(songs, songId)} ELSE {}

ResultViews(songId) ==
  IF searchResult = Null THEN {}
  ELSE IF searchResult.id = songId THEN {searchResult} ELSE {}

AnalyticsViews(songId) ==
  IF analyticsData = Null THEN {}
  ELSE IF songId \in Ids(analyticsData.allSongs)
    THEN {Find(analyticsData.allSongs, songId)} ELSE {}

HeldViews(songId) ==
  RowViews(songId) \cup ResultViews(songId) \cup AnalyticsViews(songId)

\* what handleRatingChange(l, value) pushes, when the widget at l is there
Mutation(l, value) ==
  IF WidgetMounted(l)
    THEN {[song |-> WidgetSong(l).id, value |-> value,
           newAverage |->
             calculateNewAverage(WidgetSong(l).average_rating,
                                 WidgetSong(l).rating_count,
                                 WidgetSong(l).user_rating, value),
           newCount |-> newCountOf(WidgetSong(l).user_rating,
                                   WidgetSong(l).rating_count)]}
    ELSE {}

\* the handleRatingChange runs for a song whose rating() has not returned,
\* and the latest of them
PendingFor(songId) == {c \in rateCalls : c.song = songId}

LatestPending(songId) ==
  CHOOSE c \in PendingFor(songId) : \A d \in PendingFor(songId) : d.n <= c.n

\* no refresh and no search is in flight
NoFetchInFlight ==
  /\ songFetches = EmptyBag
  /\ analyticsFetches = EmptyBag
  /\ searchCalls = EmptyBag

\* ----------------------------------------------------------------- claims
\* C1: after the rating change of song S in a widget (here: in a table row),
\* the table row of S and the search result of S, each where held, report
\* the user_rating, average_rating and rating_count of that change.
C1_Propagation ==
  [][\A l \in Songs, v \in MuiValues : \A m \in Mutation(l, v) :
       clickRating(l, v) =>
         \A view \in (RowViews(m.song) \cup ResultViews(m.song))' :
           Triple(view) = <<m.value, m.newAverage, m.newCount>>]_vars

\* C2: once every lookup has resolved, with the input "ab" standing and no
\* authoritative search made, the suggestion list is the result of the
\* lookup for "ab" (the song titled "ab"), whatever lookups went before.
C2_SearchRace ==
  ( /\ searchTerm = <<"a", "b">>
    /\ lookups = EmptyBag
    /\ searchCalls = EmptyBag /\ searchResult = Null /\ searchError = "none"
    /\ counters.searches = MaxPicked )
  => searchSuggestions = <<SearchMatch(<<"a", "b">>)>>

\* C3: a rating change of a song whose earlier rating call is still pending
\* is computed from the aggregate the earlier change produced: the widget's
\* user_rating, average_rating and rating_count are the earlier change's
\* value, average and count.
C3_ConcurrencyGuard ==
  [][\A l \in Songs, v \in MuiValues :
       (clickRating(l, v) /\ PendingFor(WidgetSong(l).id) # {}) =>
         Triple(WidgetSong(l)) =
           <<LatestPending(WidgetSong(l).id).value,
             LatestPending(WidgetSong(l).id).outAvg,
             LatestPending(WidgetSong(l).id).outCnt>>]_vars

C5_ViewsAgreeAfterSuccess ==
  [][\A c \in rateCalls :
       (rateDone(c) /\ NoFetchInFlight') =>
         Cardinality({Triple(view) : view \in HeldViews(c.song)'}) <= 1]_vars

C8_CountKeptOnUpdate ==
  (calc.done /\ calc.oldCount >= 1 /\ calc.oldUserRating > 0)
    => calc.newCount = calc.oldCount

\* C8 witness: the recalculation has run on an update of an existing rating.
C8_Witness ==
  /\ calc.done /\ calc.oldCount >= 1 /\ calc.oldUserRating > 0
  /\ calc.newUserRating # calc.oldUserRating

\* C9: recalculated with oldUserRating = 0, the count is oldCount + 1.
C9_CountGrowsOnFirst ==
  (calc.done /\ calc.oldUserRating = 0) => calc.newCount = calc.oldCount + 1

\* C9 witness: the recalculation has run on a first rating of a rated song.
C9_Witness == calc.done /\ calc.oldUserRating = 0 /\ calc.oldCount = 2

\* C10: the recalculated average p/q of oldAverage n/d is
\* (n/d * oldCount + new) / (oldCount + 1) without a previous rating, and
\* (n/d * oldCount - old + new) / oldCount with one and oldCount >= 1, the
\* equations cross-multiplied; (4.0, 2, 0, 5) gives 13/3 stars and count 3,
\* (4.0, 2, 5, 3) gives 3.0 stars and count 2.
C10_AverageKeepsSum ==
  calc.done =>
    /\ calc.newAverage[2] > 0
    /\ calc.oldUserRating = 0 =>
         calc.newAverage[1] * calc.oldAverage[2] * (calc.oldCount + 1)
           = (calc.oldAverage[1] * calc.oldCount
              + calc.newUserRating * calc.oldAverage[2]) * calc.newAverage[2]
    /\ (calc.oldUserRating = 0 /\ calc.oldCount = 0) =>
         calc.newAverage = <<calc.newUserRating, 1>>
    /\ (calc.oldUserRating > 0 /\ calc.oldCount >= 1) =>
         calc.newAverage[1] * calc.oldAverage[2] * calc.oldCount
           = (calc.oldAverage[1] * calc.oldCount
              - calc.oldUserRating * calc.oldAverage[2]
              + calc.newUserRating * calc.oldAverage[2]) * calc.newAverage[2]
    /\ ( /\ calc.oldAverage = <<4 * PerStar, 1>> /\ calc.oldCount = 2
         /\ calc.oldUserRating = 0 /\ calc.newUserRating = 5 * PerStar )
       => calc.newAverage = <<13 * PerStar, 3>> /\ calc.newCount = 3
    /\ ( /\ calc.oldAverage = <<4 * PerStar, 1>> /\ calc.oldCount = 2
         /\ calc.oldUserRating = 5 * PerStar
         /\ calc.newUserRating = 3 * PerStar )
       => calc.newAverage = <<3 * PerStar, 1>> /\ calc.newCount = 2

\* C10 witness: the recalculation has run on (4.0, 2, 5, 3).
C10_Witness ==
  /\ calc.done
  /\ calc.oldAverage = <<4 * PerStar, 1>> /\ calc.oldCount = 2
  /\ calc.oldUserRating = 5 * PerStar /\ calc.newUserRating = 3 * PerStar

\* C11: recalculated with a previous rating (oldUserRating > 0) and
\* oldCount = 0, the average is newUserRating and the count is 1.
C11_GuardIsCaseA ==
  (calc.done /\ calc.oldUserRating > 0 /\ calc.oldCount = 0)
    => /\ calc.newAverage = <<calc.newUserRating, 1>>
       /\ calc.newCount = 1

\* C12 as amended: recalculated with newUserRating = oldUserRating > 0 and
\* oldCount >= 1, the average is oldAverage and the count is oldCount; so it
\* is after any number of resubmissions, each made on the result of the one
\* before.
C12_ResubmissionKeeps ==
  ( /\ calc.done /\ calc.oldUserRating > 0 /\ calc.oldCount >= 1
    /\ calc.newUserRating = calc.oldUserRating )
  => /\ calc.newAverage = calc.oldAverage
     /\ calc.newCount = calc.oldCount

\* C12 witness: a resubmission of 3.5 stars has been recalculated on the
\* result of a first rating of 3.5 stars of a song rated 4.0 by two.
C12_Witness ==
  /\ calc.done
  /\ calc.oldUserRating = 7 * (PerStar \div 2)
  /\ calc.newUserRating = calc.oldUserRating
  /\ calc.oldCount = 3
  /\ calc.oldAverage = Frac(2 * (4 * PerStar) + 7 * (PerStar \div 2), 3)

\* C12 as stated: recalculated with newUserRating = oldUserRating > 0 (any
\* oldCount), the average is oldAverage and the count is oldCount.
C12_AsStated ==
  (calc.done /\ calc.oldUserRating > 0
     /\ calc.newUserRating = calc.oldUserRating)
  => /\ calc.newAverage = calc.oldAverage
     /\ calc.newCount = calc.oldCount

C14_SongResponseIsSuccess ==
  [][\A c \in rateCalls :
       rateDone(c) =>
         /\ ResponseAccepted(RateResponse(c.song))
         /\ widgets'[c.loc].ratingError = "none"]_vars

\* C15: when the last refresh of the table completes with every rate call
\* made accepted by the server, each table row holds the server's values of
\* its song.
C15_TrailingRefresh ==
  [][\A f \in BagToSet(songFetches) :
       ( /\ fetchSongsDone(f)
         /\ songFetches' = EmptyBag
         /\ counters.calls > 0
         /\ \A c \in rateCalls : c.phase = "ok" )
       => \A i \in 1..Len(songs') : songs'[i] = SrvSong(songs'[i].id)]_vars

\* C16: a songs fetch that completes replaces the raw list by its items and
\* the sorted list by their sorted copy; with every refresh issued before
\* every optimistic update, it leaves each entry as it was or with the
\* server's values of that moment, never with values that predate the update.
C16_NextFetchReconciles ==
  [][\A f \in BagToSet(songFetches) :
       fetchSongsDone(f) =>
         /\ rawSongs' = f.items
         /\ songs' = SortEffect(f.items, sortConfig)
         /\ \A s \in Ids(rawSongs) \cap Ids(rawSongs') :
              Find(rawSongs', s) \in {Find(rawSongs, s), SrvSong(s)}]_vars

\* C17: an optimistic update of song S leaves the entry of every other song
\* in the raw list, the sorted list and the analytics list as it was, and
\* gives every held view of S the new user rating.
C17_KeyedMerge ==
  [][\A v \in MuiValues : \A m \in Mutation("search", v) :
       clickRating("search", v) =>
         /\ Len(rawSongs') = Len(rawSongs)
         /\ \A i \in 1..Len(rawSongs) :
              rawSongs[i].id # m.song => rawSongs'[i] = rawSongs[i]
         /\ \A s \in Songs \ {m.song} :
              /\ RowViews(s)' = RowViews(s)
              /\ AnalyticsViews(s)' = AnalyticsViews(s)
         /\ \A view \in HeldViews(m.song)' : view.user_rating = v]_vars

\* C17 witness: both songs have been rated, one after the other, and the
\* table and the analytics list show both ratings.
C17_Witness ==
  \A s \in Songs :
    /\ RowViews(s) # {} /\ AnalyticsViews(s) # {}
    /\ \A view \in RowViews(s) \cup AnalyticsViews(s) : view.user_rating > 0
    /\ Find(rawSongs, s).user_rating > 0

\* C18: a change of the input issues exactly one lookup, for the new text,
\* when its trimmed text is not empty and not the title of the result shown,
\* and none otherwise; and no step but a change of the input issues a lookup.
C18_OneLookupPerInput ==
  [][/\ \A text \in Texts :
          handleInputChange(text) =>
            IF Trim(text) # <<>>
               /\ (searchResult = Null \/ searchResult.title # Trim(text))
              THEN lookups' = Put(lookups, [term |-> text, phase |-> "req",
                                            result |-> Null])
              ELSE lookups' = lookups
     /\ BagCardinality(lookups') > BagCardinality(lookups) =>
          \E text \in Texts : handleInputChange(text)]_vars

\* C19: the selection of a listed suggestion closes the dropdown, sets the
\* input to the song's title, issues the authoritative search for that title
\* and issues no lookup.
C19_SelectionSearchesOnce ==
  [][\A s \in {searchSuggestions[i] : i \in 1..Len(searchSuggestions)},
        byKey \in BOOLEAN :
       handleSuggestionClick(s, byKey) =>
         /\ ~shouldShowSuggestions'
         /\ searchTerm' = s.title
         /\ searchCalls' = Put(searchCalls, [title |-> s.title,
                                             phase |-> "req", result |-> Null])
         /\ lookups' = lookups]_vars

\* C20: when the lookup for the standing input returns no match, no other
\* lookup is in flight, and the input has the focus with the suggestions
\* asked for, the dropdown shows its "no songs found" entry.
C20_NoResultsVisible ==
  [][\A l \in BagToSet(lookups) :
       ( /\ lookupDone(l) /\ l.result = Null
         /\ lookups' = EmptyBag
         /\ l.term = searchTerm /\ showSuggestions /\ focused )
       => NoResultsShown']_vars

\* C21: whenever a suggestion lookup is in flight the suggestion loading
\* flag is set, and whenever the rate call of a widget is in flight the
\* widget's isUpdating and ratingLoading are set: the flag stays set while
\* any lookup issued is unresolved.
C21_LoadingWhileInFlight ==
  /\ lookups # EmptyBag => isLoadingSuggestions
  /\ \A c \in rateCalls :
       c.live => widgets[c.loc].isUpdating /\ widgets[c.loc].ratingLoading

\* C22: the step in which the rate call of a mounted widget fails (error
\* answer, network error or timeout) leaves the widget mounted with
\* isUpdating and ratingLoading reset, and a further click on a widget that
\* shows the failure is processed: it issues a new rate call for the value
\* clicked.
C22_FailureReleasesWidget ==
  [][/\ \A c \in rateCalls :
          (rateFail(c) /\ c.live) =>
            /\ WidgetMounted(c.loc)'
            /\ ~widgets'[c.loc].isUpdating
            /\ ~widgets'[c.loc].ratingLoading
     /\ \A l \in Locs, v \in MuiValues :
          (clickRating(l, v) /\ widgets[l].ratingError = "failed") =>
            \E c \in rateCalls' \ rateCalls :
              /\ c.loc = l /\ c.value = v /\ c.phase = "req"
              /\ widgets'[l].isUpdating]_vars

\* C22 witness: the second rate call of the widget of one search result is
\* in flight, and the server has no rating of the user: the first call failed
\* and the widget took the next click.
C22_Witness ==
  /\ counters.searches = MaxSearches - 1
  /\ \A s \in Songs : srv[s].user = 0
  /\ \E c \in rateCalls :
       /\ rateCalls = {c}
       /\ c.n = 2 /\ c.live /\ c.loc = "search" /\ c.phase = "req"
       /\ widgets[c.loc].isUpdating

\* C23: the step in which a suggestion lookup fails leaves an empty
\* suggestion list and the loading flag cleared, sets no search error, and
\* leaves the search result, the searching flag (the only thing that
\* disables the input), the input text and the focus as they were.
C23_LookupFailureIsSilent ==
  [][\A l \in BagToSet(lookups) :
       lookupFail(l) =>
         /\ searchSuggestions' = <<>>
         /\ ~isLoadingSuggestions'
         /\ searchError' = searchError
         /\ searching' = searching
         /\ searchResult' = searchResult
         /\ searchTerm' = searchTerm /\ focused' = focused]_vars

\* C23 witness: the input holds the title of a song of the catalog, no
\* search was made and no lookup is left, and the list is empty with no
\* error shown: the lookup for the title failed.
C23_Witness ==
  /\ SearchBarMounted
  /\ searchTerm = <<"a">> /\ SearchMatch(searchTerm) # Null
  /\ counters.searches = MaxSearches
  /\ lookups = EmptyBag
  /\ searchSuggestions = <<>> /\ ~isLoadingSuggestions
  /\ searchError = "none" /\ ~searching

\* C24: without a signed-in user no rate call is ever in flight, no widget
\* leaves its initial state, the table's lists and the analytics list stay as
\* fetched and the search result shown is the song as the server returned it,
\* whatever rating attempts are made.
C24_AnonymousRatesNothing ==
  user = Null =>
    /\ rateCalls = {}
    /\ counters.calls = 0
    /\ \A l \in Locs : widgets[l] = Fresh
    /\ rawSongs = SongList /\ songs = SongList
    /\ analyticsData = [allSongs |-> SongList, totalRatedSongs |-> 0]
    /\ searchResult # Null => searchResult = SrvSong(searchResult.id)
    /\ \A s \in Songs : srv[s].user = 0

\* C24 witness: no user is signed in and a search result is shown with its
\* rating widget, on which handleRatingChange returns at its check of the
\* user.
C24_Witness ==
  /\ user = Null
  /\ WidgetMounted("search")
  /\ ~widgets["search"].isUpdating
  /\ searchResult.rating_count = 2 /\ searchResult.user_rating = 0

C28_ResultXorError ==
  /\ ~(searchResult # Null /\ searchError # "none")
  /\ searchCalls = EmptyBag => ~searching

\* C26: of the ratings of the validation test, rating() takes those from 0
\* to 5 stars (0, 1 to 5, 3.5 and 4.5) and issues the rate call for them with
\* ratingLoading set and no error; it rejects the others (-1, 6, 10, -5): no
\* rate call is issued, ratingLoading is left alone, ratingError is set and
\* the handler ends with isUpdating reset.
C26_RangeValidation ==
  [][\A v \in validRatings \cup invalidRatings :
       handleRatingChange("search", v) =>
         /\ RatingInRange(v) <=> (0 <= v /\ v <= 5 * PerStar)
         /\ RatingInRange(v) <=> v \in validRatings
         /\ IF v \in validRatings
              THEN /\ \E c \in rateCalls' \ rateCalls :
                        c.value = v /\ c.phase = "req"
                   /\ widgets'["search"].ratingLoading
                   /\ widgets'["search"].ratingError = "none"
              ELSE /\ rateCalls' = rateCalls
                   /\ widgets'["search"].ratingLoading
                        = widgets["search"].ratingLoading
                   /\ ~widgets'["search"].isUpdating
                   /\ widgets'["search"].ratingError = "range"]_vars

\* C26 witness: handleRatingChange called with 6 stars has left the range
\* error on the widget, no rate call and nothing at the server.
C26_Witness ==
  /\ WidgetMounted("search")
  /\ widgets["search"].ratingError = "range"
  /\ ~widgets["search"].isUpdating /\ ~widgets["search"].ratingLoading
  /\ rateCalls = {} /\ counters.calls = 1
  /\ searchResult.user_rating = 6 * PerStar
  /\ \A s \in Songs : srv[s].user = 0

\* C27: no rating change is processed on a widget whose rate call is
\* pending, and no widget ever has more than one rate call in flight.
C27_OneCallPerWidget ==
  [][/\ \A l \in Locs, v \in MuiValues :
          clickRating(l, v) => ~\E c \in rateCalls : c.loc = l /\ c.live
     /\ \A l \in Locs :
          Cardinality({c \in rateCalls' : c.loc = l /\ c.live}) <= 1]_vars

\* C27 witness: the rate call of the search result's widget is pending, the
\* widget is shown with isUpdating set, and the user has a click left.
C27_Witness ==
  /\ WidgetMounted("search")
  /\ widgets["search"].isUpdating
  /\ counters.ops > 0
  /\ \E c \in rateCalls : c.loc = "search" /\ c.live /\ c.phase = "req"
  /\ \E v \in MuiValues : v # searchResult.user_rating

\* C29: an optimistic rating update leaves totalRatedSongs non-negative,
\* one higher when the song rated had no rating of the user in any view that
\* holds it, and unchanged when it had one in every such view, whether the
\* song is in the analytics list or not.
C29_RatedSongsCount ==
  [][\A v \in MuiValues :
       (clickRating("search", v) /\ analyticsData # Null) =>
         /\ analyticsData'.totalRatedSongs >= 0
         /\ (\A view \in HeldViews(searchResult.id) : view.user_rating = 0)
              => analyticsData'.totalRatedSongs
                   = analyticsData.totalRatedSongs + 1
         /\ (\A view \in HeldViews(searchResult.id) : view.user_rating > 0)
              => analyticsData'.totalRatedSongs
                   = analyticsData.totalRatedSongs]_vars

\* C30: handleExport asks for page 1; after the answer to page p, getAllSongs
\* appends its items and asks for page p + 1 unless the answer's has_next is
\* false or p + 1 is more than the pages it reports, and then it returns the
\* items of the pages 1 to p in that order, which are downloaded when there
\* are any; a failed page request ends the run with the error set and
\* nothing downloaded; no run asks for more pages than the largest page
\* count reported allows, and every export started comes to its end.
C30_ExportTerminates ==
  /\ [][/\ handleExport =>
            exportRuns' = SetToBag({[live |-> TRUE, page |-> 1,
                                     allSongs |-> <<>>, phase |-> "req",
                                     data |-> Null]})
        /\ \A r \in BagToSet(exportRuns) :
             /\ getAllSongs(r) =>
                  IF r.data.has_next /\ r.page + 1 <= r.data.pages
                    THEN /\ exportRuns' =
                              SetToBag({[live |-> TRUE, page |-> r.page + 1,
                                         allSongs |->
                                           r.allSongs \o r.data.items,
                                         phase |-> "req", data |-> Null]})
                         /\ exportButton'.exporting
                         /\ downloaded' = downloaded
                    ELSE /\ exportRuns' = EmptyBag
                         /\ ~exportButton'.exporting
                         /\ IF r.allSongs \o r.data.items = <<>>
                              THEN /\ downloaded' = downloaded
                                   /\ exportButton'.error = "empty"
                              ELSE /\ downloaded' =
                                        r.allSongs \o r.data.items
                                   /\ exportButton'.success
             /\ getAllSongsFail(r) =>
                  /\ exportRuns' = EmptyBag
                  /\ downloaded' = downloaded
                  /\ ~exportButton'.exporting /\ ~exportButton'.success
                  /\ exportButton'.error = "failed"]_vars
  /\ [](\A r \in BagToSet(exportRuns) :
          /\ r.page <= Max(1, MaxExportPages)
          /\ Len(r.allSongs) <= r.page - 1)
  /\ (exportButton.exporting ~> ~exportButton.exporting)

\* C30 witness: an export has ended with the songs of three pages
\* downloaded in the order of the pages.
C30_Witness ==
  /\ exportRuns = EmptyBag
  /\ exportButton.success /\ ~exportButton.exporting
  /\ downloaded = <<SrvSong("s1"), SrvSong("s2"), SrvSong("s1")>>

====
